---- MODULE Spec2Model ----
(***************************************************************************)
(* DefaultSubscriptionRegistry                                             *)
(* (src/src/services/subscription-registry/default-subscription-registry.ts)*)
(*                                                                         *)
(* The registry keeps two maps:                                            *)
(*   subscriptions : Map<string, Subscription>      (the NameIndex)        *)
(*   sockets       : Map<SocketWrapper, Set<Subscription>>                 *)
(*                                                   (the ConnectionIndex) *)
(* A Subscription is a heap object {name, sockets: Set<SocketWrapper>};    *)
(* both maps hold references to it, so the model keeps a heap of           *)
(* Subscription objects addressed by identity.  A JavaScript Set iterates  *)
(* in insertion order, so a Set is modelled as a duplicate-free sequence.  *)
(* Every public method runs to completion on the event loop: one action    *)
(* per method.  The calls a method makes on its collaborators (socket,     *)
(* cluster state registry, listener, logger) are recorded, in order, in    *)
(* the variable out.  The logger.warn and logger.debug calls, which the    *)
(* code makes only when logger.shouldLog allows and which leave the        *)
(* registry untouched, are not recorded.                                   *)
(***************************************************************************)
EXTENDS Integers, Sequences, FiniteSets, TLC

\* Bounds of the model.
NumConns == 2
NumNames == 2
MaxBulk == 2
MaxSends == 3

Conns == 1..NumConns
Names == 1..NumNames
\* Identities available for Subscription objects.
ObjIds == 1..(2 * NumNames)
\* message.action values the upstream handlers pass in.
MsgActions == {"SUBSCRIBE", "UNSUBSCRIBE"}
\* message.correlationId values of bulk messages
CorrelationIds == {"k1", "k2"}
\* names arrays of a BulkSubscriptionMessage.
RECURSIVE SeqsUpTo(_)
SeqsUpTo(n) ==
  IF n = 0 THEN {<<>>}
  ELSE LET shorter == SeqsUpTo(n - 1)
       IN shorter \cup {Append(s, x) : s \in {t \in shorter : Len(t) = n - 1}, x \in Names}
BulkNames == SeqsUpTo(MaxBulk) \ {<<>>}

VARIABLES
  subscriptions,        \* Map<string, Subscription>: name -> object identity
  heap,                 \* Subscription objects: identity -> [name, sockets]
  sockets,              \* Map<SocketWrapper, Set<Subscription>>
  closeCallbacks,       \* connections on which onSocketClose is registered
  subscriptionListener, \* TRUE iff a SubscriptionListener is installed
  clusterNet,           \* per name: clusterSubscriptions.add calls minus remove calls
  closed,               \* connections that have closed
  out,                  \* collaborator calls made by the last operation
  lastOp,               \* the last operation and its arguments
  inbox,                \* per connection: the built messages written to it, in order
  submitted             \* number of sendToSubscribers calls submitted so far

vars == <<subscriptions, heap, sockets, closeCallbacks, subscriptionListener,
          clusterNet, closed, out, lastOp, inbox, submitted>>

----------------------------------------------------------------------------
\* JavaScript Map and Set
Range(s) == {s[i] : i \in DOMAIN s}
MapSet(m, k, v) == [x \in (DOMAIN m) \cup {k} |-> IF x = k THEN v ELSE m[x]]
MapDelete(m, k) == [x \in (DOMAIN m) \ {k} |-> m[x]]
SetAdd(s, x) == IF x \in Range(s) THEN s ELSE Append(s, x)
SetDelete(s, x) == SelectSeq(s, LAMBDA y : y # x)

\* The topic the registry was constructed for and its action codes.
TOPIC == "EVENT"
MULTIPLE_SUBSCRIPTIONS == "MULTIPLE_SUBSCRIPTIONS"
NOT_SUBSCRIBED == "NOT_SUBSCRIBED"

\* The registry as a value, so that a method is a function from registry to
\* registry and a method calling another is function composition.
Cur ==
  [subscriptions |-> subscriptions, heap |-> heap, sockets |-> sockets,
   closeCallbacks |-> closeCallbacks, listener |-> subscriptionListener,
   clusterNet |-> clusterNet, out |-> <<>>, seen |-> <<>>]

\* A call on a collaborator: the call is logged in out and, beside it in
\* seen, the two maps as they are at the moment of the call.
Emit(r, e) ==
  [r EXCEPT !.out = Append(@, e),
            !.seen = Append(@, [subscriptions |-> r.subscriptions, heap |-> r.heap,
                                sockets |-> r.sockets])]

\* new object: the least identity no live object has
NewSubscription(r) ==
  CHOOSE o \in ObjIds \ DOMAIN r.heap : \A p \in ObjIds \ DOMAIN r.heap : o <= p

\* Objects no map refers to are unreachable and are dropped from the heap.
Reachable(r) ==
  Range(r.subscriptions) \cup UNION {Range(r.sockets[c]) : c \in DOMAIN r.sockets}
Collect(r) == [r EXCEPT !.heap = [o \in (DOMAIN r.heap) \cap Reachable(r) |-> r.heap[o]]]

----------------------------------------------------------------------------
\* addSocket with the cluster add issued for a name's first subscriber only
addSocketFirstOnly(r, subscription, socket) ==
  LET name == r.heap[subscription].name
      subs == IF socket \in DOMAIN r.sockets THEN r.sockets[socket] ELSE <<>>
      r1 == IF Len(subs) = 0
            THEN Emit([r EXCEPT !.sockets = MapSet(@, socket, subs),
                                !.closeCallbacks = @ \cup {socket}],
                      <<"onClose", socket>>)
            ELSE r
      r2 == [r1 EXCEPT !.sockets[socket] = SetAdd(@, subscription)]
      r3 == IF Len(r.heap[subscription].sockets) = 1
            THEN Emit([r2 EXCEPT !.clusterNet[name] = @ + 1],
                      <<"clusterSubscriptions.add", name>>)
            ELSE r2
  IN IF r3.listener THEN Emit(r3, <<"onSubscriptionMade", name, socket>>) ELSE r3

\* addSocket that records the Subscription for a connection's first one only
addSocketFirstHeldOnly(r, subscription, socket) ==
  LET name == r.heap[subscription].name
      subs == IF socket \in DOMAIN r.sockets THEN r.sockets[socket] ELSE <<>>
      r1 == IF Len(subs) = 0
            THEN Emit([r EXCEPT !.sockets = MapSet(@, socket, SetAdd(subs, subscription)),
                                !.closeCallbacks = @ \cup {socket}],
                      <<"onClose", socket>>)
            ELSE r
      r3 == Emit([r1 EXCEPT !.clusterNet[name] = @ + 1],
                 <<"clusterSubscriptions.add", name>>)
  IN IF r3.listener THEN Emit(r3, <<"onSubscriptionMade", name, socket>>) ELSE r3

\* private addSocket (subscription, socket)
addSocket(r, subscription, socket) ==
  LET name == r.heap[subscription].name
      subs == IF socket \in DOMAIN r.sockets THEN r.sockets[socket] ELSE <<>>
      r1 == IF Len(subs) = 0
            THEN Emit([r EXCEPT !.sockets = MapSet(@, socket, subs),
                                !.closeCallbacks = @ \cup {socket}],
                      <<"onClose", socket>>)
            ELSE r
      r2 == [r1 EXCEPT !.sockets[socket] = SetAdd(@, subscription)]
      r3 == Emit([r2 EXCEPT !.clusterNet[name] = @ + 1],
                 <<"clusterSubscriptions.add", name>>)
  IN IF r3.listener THEN Emit(r3, <<"onSubscriptionMade", name, socket>>) ELSE r3

\* removeSocket that leaves an emptied Subscription installed under its name
removeSocketKeepsName(r, subscription, socket) ==
  LET name == r.heap[subscription].name
      r1 == IF Len(r.heap[subscription].sockets) = 0
            THEN Emit([r EXCEPT !.closeCallbacks = @ \ {socket}],
                      <<"removeOnClose", socket>>)
            ELSE r
      r2 == IF r1.listener THEN Emit(r1, <<"onSubscriptionRemoved", name, socket>>) ELSE r1
      r3 == Emit([r2 EXCEPT !.clusterNet[name] = @ - 1],
                 <<"clusterSubscriptions.remove", name>>)
  IN IF socket \in DOMAIN r3.sockets
     THEN [r3 EXCEPT !.sockets[socket] = SetDelete(@, subscription)]
     ELSE r3

\* removeSocket with the cluster remove issued for a name's last subscriber only
removeSocketLastOnly(r, subscription, socket) ==
  LET name == r.heap[subscription].name
      empty == Len(r.heap[subscription].sockets) = 0
      r1 == IF empty
            THEN Emit([r EXCEPT !.subscriptions = MapDelete(@, name),
                                !.closeCallbacks = @ \ {socket}],
                      <<"removeOnClose", socket>>)
            ELSE r
      r2 == IF r1.listener THEN Emit(r1, <<"onSubscriptionRemoved", name, socket>>) ELSE r1
      r3 == IF empty
            THEN Emit([r2 EXCEPT !.clusterNet[name] = @ - 1],
                      <<"clusterSubscriptions.remove", name>>)
            ELSE r2
  IN IF socket \in DOMAIN r3.sockets
     THEN [r3 EXCEPT !.sockets[socket] = SetDelete(@, subscription)]
     ELSE r3

\* removeSocket that tells the listener only when the name lost its last subscriber
removeSocketNotifiesLast(r, subscription, socket) ==
  LET name == r.heap[subscription].name
      empty == Len(r.heap[subscription].sockets) = 0
      r1 == IF empty
            THEN Emit([r EXCEPT !.subscriptions = MapDelete(@, name),
                                !.closeCallbacks = @ \ {socket}],
                      <<"removeOnClose", socket>>)
            ELSE r
      r2 == IF r1.listener /\ empty
            THEN Emit(r1, <<"onSubscriptionRemoved", name, socket>>)
            ELSE r1
      r3 == Emit([r2 EXCEPT !.clusterNet[name] = @ - 1],
                 <<"clusterSubscriptions.remove", name>>)
  IN IF socket \in DOMAIN r3.sockets
     THEN [r3 EXCEPT !.sockets[socket] = SetDelete(@, subscription)]
     ELSE r3

\* removeSocket that tells the cluster before the listener
removeSocketClusterFirst(r, subscription, socket) ==
  LET name == r.heap[subscription].name
      r1 == IF Len(r.heap[subscription].sockets) = 0
            THEN Emit([r EXCEPT !.subscriptions = MapDelete(@, name),
                                !.closeCallbacks = @ \ {socket}],
                      <<"removeOnClose", socket>>)
            ELSE r
      r2 == Emit([r1 EXCEPT !.clusterNet[name] = @ - 1],
                 <<"clusterSubscriptions.remove", name>>)
      r3 == IF r2.listener THEN Emit(r2, <<"onSubscriptionRemoved", name, socket>>) ELSE r2
  IN IF socket \in DOMAIN r3.sockets
     THEN [r3 EXCEPT !.sockets[socket] = SetDelete(@, subscription)]
     ELSE r3

\* private removeSocket (subscription, socket)
removeSocket(r, subscription, socket) ==
  LET name == r.heap[subscription].name
      r1 == IF Len(r.heap[subscription].sockets) = 0
            THEN Emit([r EXCEPT !.subscriptions = MapDelete(@, name),
                                !.closeCallbacks = @ \ {socket}],
                      <<"removeOnClose", socket>>)
            ELSE r
      r2 == IF r1.listener THEN Emit(r1, <<"onSubscriptionRemoved", name, socket>>) ELSE r1
      r3 == Emit([r2 EXCEPT !.clusterNet[name] = @ - 1],
                 <<"clusterSubscriptions.remove", name>>)
  IN IF socket \in DOMAIN r3.sockets
     THEN [r3 EXCEPT !.sockets[socket] = SetDelete(@, subscription)]
     ELSE r3

\* subscribe that reports a repeated subscription only when not silent
subscribeQuietRepeat(r, name, message, socket, silent) ==
  LET found == name \in DOMAIN r.subscriptions
      subscription == IF found THEN r.subscriptions[name] ELSE NewSubscription(r)
      r0 == IF found THEN r
            ELSE [r EXCEPT !.heap = MapSet(@, subscription, [name |-> name, sockets |-> <<>>])]
      size == Len(r0.heap[subscription].sockets)
  IN IF size = 0 \/ socket \notin Range(r0.heap[subscription].sockets)
     THEN LET r1 == IF size = 0
                    THEN [r0 EXCEPT !.subscriptions = MapSet(@, name, subscription)]
                    ELSE r0
              r2 == [r1 EXCEPT !.heap[subscription].sockets = SetAdd(@, socket)]
              r3 == addSocket(r2, subscription, socket)
          IN IF ~silent THEN Emit(r3, <<"sendAckMessage", socket, message>>) ELSE r3
     ELSE IF ~silent
          THEN Emit(r, <<"sendMessage", socket,
                         [topic |-> TOPIC, action |-> MULTIPLE_SUBSCRIPTIONS,
                          originalAction |-> message.action, name |-> name]>>)
          ELSE r

\* subscribe that acknowledges a repeated subscription after reporting it
subscribeAcksRepeat(r, name, message, socket, silent) ==
  LET found == name \in DOMAIN r.subscriptions
      subscription == IF found THEN r.subscriptions[name] ELSE NewSubscription(r)
      r0 == IF found THEN r
            ELSE [r EXCEPT !.heap = MapSet(@, subscription, [name |-> name, sockets |-> <<>>])]
      size == Len(r0.heap[subscription].sockets)
  IN IF size = 0 \/ socket \notin Range(r0.heap[subscription].sockets)
     THEN LET r1 == IF size = 0
                    THEN [r0 EXCEPT !.subscriptions = MapSet(@, name, subscription)]
                    ELSE r0
              r2 == [r1 EXCEPT !.heap[subscription].sockets = SetAdd(@, socket)]
              r3 == addSocket(r2, subscription, socket)
          IN IF ~silent THEN Emit(r3, <<"sendAckMessage", socket, message>>) ELSE r3
     ELSE LET r1 == Emit(r, <<"sendMessage", socket,
                              [topic |-> TOPIC, action |-> MULTIPLE_SUBSCRIPTIONS,
                               originalAction |-> message.action, name |-> name]>>)
          IN IF ~silent THEN Emit(r1, <<"sendAckMessage", socket, message>>) ELSE r1

\* public subscribe (name, message, socket, silent)
subscribe(r, name, message, socket, silent) ==
  LET found == name \in DOMAIN r.subscriptions
      subscription == IF found THEN r.subscriptions[name] ELSE NewSubscription(r)
      r0 == IF found THEN r
            ELSE [r EXCEPT !.heap = MapSet(@, subscription, [name |-> name, sockets |-> <<>>])]
      size == Len(r0.heap[subscription].sockets)
  IN IF size = 0 \/ socket \notin Range(r0.heap[subscription].sockets)
     THEN LET r1 == IF size = 0
                    THEN [r0 EXCEPT !.subscriptions = MapSet(@, name, subscription)]
                    ELSE r0
              r2 == [r1 EXCEPT !.heap[subscription].sockets = SetAdd(@, socket)]
              r3 == addSocket(r2, subscription, socket)
          IN IF ~silent THEN Emit(r3, <<"sendAckMessage", socket, message>>) ELSE r3
     ELSE Emit(r, <<"sendMessage", socket,
                    [topic |-> TOPIC, action |-> MULTIPLE_SUBSCRIPTIONS,
                     originalAction |-> message.action, name |-> name]>>)

\* unsubscribe that ignores the result of sockets.delete
unsubscribeIgnoresDelete(r, name, message, socket, silent) ==
  LET found == name \in DOMAIN r.subscriptions
  IN IF ~found
     THEN IF ~silent
          THEN Emit(r, <<"sendMessage", socket,
                         [topic |-> TOPIC, action |-> NOT_SUBSCRIBED,
                          originalAction |-> message.action, name |-> name]>>)
          ELSE r
     ELSE LET subscription == r.subscriptions[name]
              r1 == [r EXCEPT !.heap[subscription].sockets = SetDelete(@, socket)]
              r2 == removeSocket(r1, subscription, socket)
          IN IF ~silent THEN Emit(r2, <<"sendAckMessage", socket, message>>) ELSE r2

\* unsubscribe that reports an unknown subscription whatever silent is
unsubscribeAlwaysReplies(r, name, message, socket, silent) ==
  LET found == name \in DOMAIN r.subscriptions
      deleted == found /\ socket \in Range(r.heap[r.subscriptions[name]].sockets)
  IN IF ~deleted
     THEN Emit(r, <<"sendMessage", socket,
                    [topic |-> TOPIC, action |-> NOT_SUBSCRIBED,
                     originalAction |-> message.action, name |-> name]>>)
     ELSE LET subscription == r.subscriptions[name]
              r1 == [r EXCEPT !.heap[subscription].sockets = SetDelete(@, socket)]
              r2 == removeSocket(r1, subscription, socket)
          IN IF ~silent THEN Emit(r2, <<"sendAckMessage", socket, message>>) ELSE r2

\* public unsubscribe (name, message, socket, silent)
unsubscribe(r, name, message, socket, silent) ==
  LET found == name \in DOMAIN r.subscriptions
      deleted == found /\ socket \in Range(r.heap[r.subscriptions[name]].sockets)
  IN IF ~deleted
     THEN IF ~silent
          THEN Emit(r, <<"sendMessage", socket,
                         [topic |-> TOPIC, action |-> NOT_SUBSCRIBED,
                          originalAction |-> message.action, name |-> name]>>)
          ELSE r
     ELSE LET subscription == r.subscriptions[name]
              r1 == [r EXCEPT !.heap[subscription].sockets = SetDelete(@, socket)]
              r2 == removeSocket(r1, subscription, socket)
          IN IF ~silent THEN Emit(r2, <<"sendAckMessage", socket, message>>) ELSE r2

\* the ACK of a bulk operation
BulkAck(message) ==
  [topic |-> message.topic, action |-> message.action, correlationId |-> message.correlationId]

\* public subscribeBulk (message, socket, silent)
RECURSIVE subscribeEach(_, _, _, _)
subscribeEach(r, names, message, socket) ==
  IF names = <<>> THEN r
  ELSE subscribeEach(subscribe(r, Head(names), message, socket, TRUE), Tail(names), message, socket)

\* subscribeBulk that hands its own silent flag to the per-name subscribes
RECURSIVE subscribeEachAs(_, _, _, _, _)
subscribeEachAs(r, names, message, socket, silent) ==
  IF names = <<>> THEN r
  ELSE subscribeEachAs(subscribe(r, Head(names), message, socket, silent),
                       Tail(names), message, socket, silent)
subscribeBulkLoud(r, message, socket, silent) ==
  LET r1 == subscribeEachAs(r, message.names, message, socket, silent)
  IN IF ~silent THEN Emit(r1, <<"sendAckMessage", socket, BulkAck(message)>>) ELSE r1

subscribeBulk(r, message, socket, silent) ==
  LET r1 == subscribeEach(r, message.names, message, socket)
  IN IF ~silent THEN Emit(r1, <<"sendAckMessage", socket, BulkAck(message)>>) ELSE r1

\* public unsubscribeBulk (message, socket, silent)
RECURSIVE unsubscribeEach(_, _, _, _)
unsubscribeEach(r, names, message, socket) ==
  IF names = <<>> THEN r
  ELSE unsubscribeEach(unsubscribe(r, Head(names), message, socket, TRUE), Tail(names), message, socket)

unsubscribeBulk(r, message, socket, silent) ==
  LET r1 == unsubscribeEach(r, message.names, message, socket)
  IN IF ~silent THEN Emit(r1, <<"sendAckMessage", socket, BulkAck(message)>>) ELSE r1

\* private onSocketClose (socket).  The for-of loop walks the live Set
\* sockets.get(socket) in insertion order; each pass removes the element it
\* is on (removeSocket), so the next element is the first one left.
RECURSIVE closeEach(_, _)
closeEach(r, socket) ==
  IF r.sockets[socket] = <<>> THEN r
  ELSE LET subscription == Head(r.sockets[socket])
           r1 == [r EXCEPT !.heap[subscription].sockets = SetDelete(@, socket)]
       IN closeEach(removeSocket(r1, subscription, socket), socket)

\* the loop of onSocketClose stepping over the element after each one it removes
RECURSIVE closeEachSkipping(_, _, _)
closeEachSkipping(r, socket, todo) ==
  IF todo = <<>> THEN r
  ELSE LET subscription == Head(todo)
           r1 == [r EXCEPT !.heap[subscription].sockets = SetDelete(@, socket)]
       IN closeEachSkipping(removeSocket(r1, subscription, socket), socket,
                            IF Len(todo) > 1 THEN Tail(Tail(todo)) ELSE <<>>)
onSocketCloseSkipping(r, socket) ==
  IF socket \notin DOMAIN r.sockets
  THEN Emit(r, <<"logger.error", NOT_SUBSCRIBED>>)
  ELSE closeEachSkipping(r, socket, r.sockets[socket])

\* onSocketClose that returns without a word when the connection has no entry
onSocketCloseUnlogged(r, socket) ==
  IF socket \notin DOMAIN r.sockets
  THEN r
  ELSE closeEach(r, socket)

onSocketClose(r, socket) ==
  IF socket \notin DOMAIN r.sockets
  THEN Emit(r, <<"logger.error", NOT_SUBSCRIBED>>)
  ELSE closeEach(r, socket)

\* public getLocalSubscribers (name), hasLocalSubscribers (name)
getLocalSubscribers(r, name) ==
  IF name \in DOMAIN r.subscriptions THEN Range(r.heap[r.subscriptions[name]].sockets) ELSE {}
hasLocalSubscribers(r, name) == name \in DOMAIN r.subscriptions

\* The sender of a message that arrived from the cluster: senderSocket = null.
NullSocket == 0

\* SocketWrapper.getMessage (message): the message built for the wire.
getMessage(socket, message) == [bytes |-> message]

\* sendToSubscribers that writes to the sender as well
RECURSIVE sendEachToAll(_, _, _)
sendEachToAll(r, subscribers, msg) ==
  IF subscribers = <<>> THEN r
  ELSE sendEachToAll(Emit(r, <<"sendBuiltMessage", Head(subscribers), msg, TRUE>>),
                     Tail(subscribers), msg)
sendToSubscribersToAll(r, name, message, noDelay, senderSocket, suppressRemote) ==
  LET r1 == IF senderSocket # NullSocket /\ suppressRemote = FALSE
            THEN Emit(r, <<"clusterNode.send", message>>)
            ELSE r
  IN IF name \notin DOMAIN r1.subscriptions
     THEN r1
     ELSE LET subscribers == r1.heap[r1.subscriptions[name]].sockets
              r2 == Emit(r1, <<"monitoring.onBroadcast", message, Len(subscribers)>>)
          IN IF subscribers = <<>>
             THEN Emit(r2, <<"TypeError">>)
             ELSE sendEachToAll(r2, subscribers, getMessage(Head(subscribers), message))

\* the loop of sendToSubscribers: for (const socket of subscribers)
RECURSIVE sendEach(_, _, _, _)
sendEach(r, subscribers, msg, senderSocket) ==
  IF subscribers = <<>> THEN r
  ELSE LET socket == Head(subscribers)
       IN sendEach(IF socket = senderSocket
                   THEN r
                   ELSE Emit(r, <<"sendBuiltMessage", socket, msg, TRUE>>),
                   Tail(subscribers), msg, senderSocket)

\* sendToSubscribers that forwards to the cluster only after finding the name
sendToSubscribersForwardsKnown(r, name, message, noDelay, senderSocket, suppressRemote) ==
  IF name \notin DOMAIN r.subscriptions
  THEN r
  ELSE LET r1 == IF senderSocket # NullSocket /\ suppressRemote = FALSE
                 THEN Emit(r, <<"clusterNode.send", message>>)
                 ELSE r
           subscribers == r1.heap[r1.subscriptions[name]].sockets
           r2 == Emit(r1, <<"monitoring.onBroadcast", message, Len(subscribers)>>)
       IN IF subscribers = <<>>
          THEN Emit(r2, <<"TypeError">>)
          ELSE sendEach(r2, subscribers, getMessage(Head(subscribers), message), senderSocket)

\* public sendToSubscribers (name, message, noDelay, senderSocket, suppressRemote).
\* subscribers.values().next().value of an empty Set is undefined, and calling
\* getMessage on it throws.
sendToSubscribers(r, name, message, noDelay, senderSocket, suppressRemote) ==
  LET r1 == IF senderSocket # NullSocket /\ suppressRemote = FALSE
            THEN Emit(r, <<"clusterNode.send", message>>)
            ELSE r
  IN IF name \notin DOMAIN r1.subscriptions
     THEN r1
     ELSE LET subscribers == r1.heap[r1.subscriptions[name]].sockets
              r2 == Emit(r1, <<"monitoring.onBroadcast", message, Len(subscribers)>>)
          IN IF subscribers = <<>>
             THEN Emit(r2, <<"TypeError">>)
             ELSE LET first == Head(subscribers)
                      msg == getMessage(first, message)
                  IN sendEach(r2, subscribers, msg, senderSocket)

----------------------------------------------------------------------------
Message(action, name) == [topic |-> TOPIC, action |-> action, name |-> name]
BulkMessage(action, names, correlationId) ==
  [topic |-> TOPIC, action |-> action, names |-> names, correlationId |-> correlationId]
NoMessage == [topic |-> TOPIC]

Op(op, socket, name, silent, message, hookRan) ==
  [op |-> op, socket |-> socket, name |-> name, silent |-> silent,
   message |-> message, hookRan |-> hookRan]

\* The registry after a method returned r.
Becomes(r0) ==
  \E r \in {Collect(r0)} :
     /\ subscriptions' = r.subscriptions
     /\ heap' = r.heap
     /\ sockets' = r.sockets
     /\ closeCallbacks' = r.closeCallbacks
     /\ subscriptionListener' = r.listener
     /\ clusterNet' = r.clusterNet
     /\ out' = r.out

Init ==
  /\ subscriptions = <<>>
  /\ heap = <<>>
  /\ sockets = <<>>
  /\ closeCallbacks = {}
  /\ subscriptionListener = FALSE
  /\ clusterNet = [n \in Names |-> 0]
  /\ closed = {}
  /\ out = <<>>
  /\ lastOp = Op("new", 0, 0, FALSE, NoMessage, FALSE)
  /\ inbox = [c \in Conns |-> <<>>]
  /\ submitted = 0

Subscribe ==
  \E socket \in Conns \ closed, name \in Names, action \in MsgActions, silent \in BOOLEAN :
    LET message == Message(action, name)
    IN /\ Becomes(subscribe(Cur, name, message, socket, silent))
       /\ lastOp' = Op("subscribe", socket, name, silent, message, FALSE)
       /\ UNCHANGED <<closed, inbox, submitted>>

Unsubscribe ==
  \E socket \in Conns \ closed, name \in Names, action \in MsgActions, silent \in BOOLEAN :
    LET message == Message(action, name)
    IN /\ Becomes(unsubscribe(Cur, name, message, socket, silent))
       /\ lastOp' = Op("unsubscribe", socket, name, silent, message, FALSE)
       /\ UNCHANGED <<closed, inbox, submitted>>

\* The bulk messages of the explored runs: a SUBSCRIBE or UNSUBSCRIBE request
\* carrying a correlation id of the sending connection.
CorrelationIdOf(socket) == IF socket % 2 = 1 THEN "k1" ELSE "k2"

SubscribeBulk ==
  \E socket \in Conns \ closed, names \in BulkNames, silent \in BOOLEAN :
    LET message == BulkMessage("SUBSCRIBE", names, CorrelationIdOf(socket))
    IN /\ Becomes(subscribeBulk(Cur, message, socket, silent))
       /\ lastOp' = Op("subscribeBulk", socket, 0, silent, message, FALSE)
       /\ UNCHANGED <<closed, inbox, submitted>>

UnsubscribeBulk ==
  \E socket \in Conns \ closed, names \in BulkNames, silent \in BOOLEAN :
    LET message == BulkMessage("UNSUBSCRIBE", names, CorrelationIdOf(socket))
    IN /\ Becomes(unsubscribeBulk(Cur, message, socket, silent))
       /\ lastOp' = Op("unsubscribeBulk", socket, 0, silent, message, FALSE)
       /\ UNCHANGED <<closed, inbox, submitted>>

\* public setSubscriptionListener (listener)
SetSubscriptionListener ==
  /\ ~subscriptionListener
  /\ Becomes(Emit(Emit([Cur EXCEPT !.listener = TRUE],
                       <<"clusterSubscriptions.onAdd">>),
                  <<"clusterSubscriptions.onRemove">>))
  /\ lastOp' = Op("setSubscriptionListener", 0, 0, FALSE, NoMessage, FALSE)
  /\ UNCHANGED <<closed, inbox, submitted>>

\* A connection closes: the connection layer runs the close callbacks that
\* are registered on it at that moment.
Close ==
  \E socket \in Conns \ closed :
    /\ closed' = closed \cup {socket}
    /\ IF socket \in closeCallbacks
       THEN Becomes(onSocketClose(Cur, socket))
       ELSE Becomes(Cur)
    /\ lastOp' = Op("close", socket, 0, FALSE, NoMessage, socket \in closeCallbacks)
    /\ UNCHANGED <<inbox, submitted>>

\* A message for the subscribers of a name arrives, from a local connection
\* or (senderSocket = null) from the cluster.
SendOp(senderSocket, name, message, suppressRemote) ==
  [op |-> "sendToSubscribers", socket |-> senderSocket, name |-> name, silent |-> FALSE,
   message |-> message, hookRan |-> FALSE, suppressRemote |-> suppressRemote]

SendToSubscribers ==
  \E name \in Names, senderSocket \in (Conns \ closed) \cup {NullSocket},
     noDelay \in BOOLEAN, suppressRemote \in BOOLEAN :
    LET message == Message("EMIT", name)
    IN /\ Becomes(sendToSubscribers(Cur, name, message, noDelay, senderSocket, suppressRemote))
       /\ lastOp' = SendOp(senderSocket, name, message, suppressRemote)
       /\ UNCHANGED <<closed, inbox, submitted>>

Next ==
  \/ Subscribe
  \/ Unsubscribe
  \/ SubscribeBulk
  \/ UnsubscribeBulk
  \/ SetSubscriptionListener
  \/ SendToSubscribers
  \/ Close

Spec == Init /\ [][Next]_vars

----------------------------------------------------------------------------
\* The order of delivery.  Messages are numbered in the order in which
\* sendToSubscribers is called with them; every connection keeps what was
\* written to it.  The operations are the silent ones, and the call log and
\* lastOp stay as they are, so that runs differ only in registry and inboxes.

\* SocketWrapper.sendBuiltMessage written newest first
sendBuiltMessageAhead(box, socket, msg) == [box EXCEPT ![socket] = <<msg>> \o @]

\* SocketWrapper.sendBuiltMessage (msg, allowBatch): the connection gets the
\* writes in the order of the calls.
sendBuiltMessage(box, socket, msg) == [box EXCEPT ![socket] = Append(@, msg)]

\* the writes of one sendToSubscribers call, each put ahead of the earlier ones
RECURSIVE DeliverAhead(_, _)
DeliverAhead(box, log) ==
  IF log = <<>> THEN box
  ELSE DeliverAhead(IF Head(log)[1] = "sendBuiltMessage"
                    THEN sendBuiltMessageAhead(box, Head(log)[2], Head(log)[3])
                    ELSE box,
                    Tail(log))

\* the writes of one sendToSubscribers call, applied in call order
RECURSIVE Deliver(_, _)
Deliver(box, log) ==
  IF log = <<>> THEN box
  ELSE Deliver(IF Head(log)[1] = "sendBuiltMessage"
               THEN sendBuiltMessage(box, Head(log)[2], Head(log)[3])
               ELSE box,
               Tail(log))

Numbered(name, k) == [topic |-> TOPIC, action |-> "EMIT", name |-> name, data |-> k]

Quietly(r0) ==
  \E r \in {Collect(r0)} :
     /\ subscriptions' = r.subscriptions
     /\ heap' = r.heap
     /\ sockets' = r.sockets
     /\ closeCallbacks' = r.closeCallbacks
     /\ clusterNet' = r.clusterNet
     /\ UNCHANGED <<subscriptionListener, out, lastOp>>

OrderedSubscribe ==
  \E socket \in Conns \ closed, name \in Names :
    /\ Quietly(subscribe(Cur, name, Message("SUBSCRIBE", name), socket, TRUE))
    /\ UNCHANGED <<closed, inbox, submitted>>

OrderedUnsubscribe ==
  \E socket \in Conns \ closed, name \in Names :
    /\ Quietly(unsubscribe(Cur, name, Message("UNSUBSCRIBE", name), socket, TRUE))
    /\ UNCHANGED <<closed, inbox, submitted>>

OrderedClose ==
  \E socket \in Conns \ closed :
    /\ closed' = closed \cup {socket}
    /\ IF socket \in closeCallbacks
       THEN Quietly(onSocketClose(Cur, socket))
       ELSE Quietly(Cur)
    /\ UNCHANGED <<inbox, submitted>>

OrderedSend ==
  /\ submitted < MaxSends
  /\ \E name \in Names, senderSocket \in (Conns \ closed) \cup {NullSocket},
        noDelay \in BOOLEAN, suppressRemote \in BOOLEAN :
       LET message == Numbered(name, submitted + 1)
       IN /\ inbox' = Deliver(inbox, sendToSubscribers(Cur, name, message, noDelay,
                                                       senderSocket, suppressRemote).out)
          /\ submitted' = submitted + 1
          /\ UNCHANGED <<subscriptions, heap, sockets, closeCallbacks, subscriptionListener,
                         clusterNet, closed, out, lastOp>>

NextOrder ==
  \/ OrderedSubscribe
  \/ OrderedUnsubscribe
  \/ OrderedSend
  \/ OrderedClose

SpecOrder == Init /\ [][NextOrder]_vars

----------------------------------------------------------------------------
\* The close callback called out of turn.  Among the single operations and
\* the closes, onSocketClose is also called for a connection on which the
\* registry has no close callback registered.

StrayClose ==
  \E socket \in Conns \ closeCallbacks :
    /\ Becomes(onSocketClose(Cur, socket))
    /\ lastOp' = Op("onSocketClose", socket, 0, FALSE, NoMessage, TRUE)
    /\ UNCHANGED <<closed, inbox, submitted>>

NextStray ==
  \/ Subscribe
  \/ Unsubscribe
  \/ SetSubscriptionListener
  \/ Close
  \/ StrayClose

SpecStray == Init /\ [][NextStray]_vars

----------------------------------------------------------------------------
\* Views of the two maps.
NameIndex(r) == [n \in DOMAIN r.subscriptions |-> Range(r.heap[r.subscriptions[n]].sockets)]
ConnectionIndex(r) ==
  [c \in DOMAIN r.sockets |-> {r.heap[o].name : o \in Range(r.sockets[c])}]
Held(r, c) == IF c \in DOMAIN r.sockets THEN Range(r.sockets[c]) ELSE {}

----------------------------------------------------------------------------
\* Reading the call log of an operation.
Count(log, e) == Cardinality({i \in DOMAIN log : log[i][1] = e[1] /\ log[i] = e})
CountKind(log, kind) == Cardinality({i \in DOMAIN log : log[i][1] = kind})
HeldNames(r, c) == {r.heap[o].name : o \in Held(r, c)}

----------------------------------------------------------------------------
\* C1: once a connection has closed it is a member of no name's socket set.
C1_ClosedConnectionReleased ==
  \A c \in closed : \A n \in Names : c \notin getLocalSubscribers(Cur, n)

\* C2: a connection has the registry's close callback registered if and only
\* if its set of held subscriptions is non-empty.
C2_CloseHookIffHolding ==
  \A c \in Conns : (c \in closeCallbacks) <=> (Held(Cur, c) # {})

\* C3: c is in the socket set of the Subscription installed under N if and
\* only if that Subscription object is in the set sockets holds for c.
C3_IndexConsistency ==
  \A n \in Names, c \in Conns :
    (c \in getLocalSubscribers(Cur, n))
      <=> (n \in DOMAIN subscriptions /\ subscriptions[n] \in Held(Cur, c))

\* C3's case: after a removal, one connection still subscribed to a name and
\* another connection left with an entry that holds nothing.
C3_Witness ==
  /\ lastOp.op \in {"unsubscribe", "unsubscribeBulk", "close"}
  /\ CountKind(out, "clusterSubscriptions.remove") > 0
  /\ \E n \in DOMAIN subscriptions, c \in Conns : c \in getLocalSubscribers(Cur, n)
  /\ \E c \in DOMAIN sockets : sockets[c] = <<>>

\* C4: a name has an entry in subscriptions if and only if its socket set is
\* non-empty: hasLocalSubscribers(N) exactly when getLocalSubscribers(N) is
\* non-empty, and no installed Subscription has an empty socket set.
C4_NoEmptySubscription ==
  /\ \A n \in Names : hasLocalSubscribers(Cur, n) <=> (getLocalSubscribers(Cur, n) # {})
  /\ \A n \in DOMAIN subscriptions : heap[subscriptions[n]].sockets # <<>>

\* C4's case: the last subscriber of a name has just left while another name
\* keeps its subscribers.
C4_Witness ==
  /\ lastOp.op \in {"unsubscribe", "close"}
  /\ \E n \in Names :
       /\ Count(out, <<"clusterSubscriptions.remove", n>>) = 1
       /\ ~hasLocalSubscribers(Cur, n)
  /\ \E n \in Names : hasLocalSubscribers(Cur, n)

\* C5: when the close hook runs for a connection c that holds K
\* subscriptions, clusterSubscriptions.remove is called exactly once for each
\* held name (K calls), the installed listener's onSubscriptionRemoved is
\* called exactly once for each held name (K calls), and every name of which
\* c was the sole subscriber is gone from subscriptions afterwards.
C5_CloseCascade ==
  [][\A c \in Conns \ closed :
       (lastOp'.op = "close" /\ lastOp'.socket = c /\ lastOp'.hookRan)
       => LET held == HeldNames(Cur, c)
          IN /\ Cardinality(held) = Cardinality(Held(Cur, c))
             /\ CountKind(out', "clusterSubscriptions.remove") = Cardinality(held)
             /\ \A n \in Names :
                  Count(out', <<"clusterSubscriptions.remove", n>>)
                    = IF n \in held THEN 1 ELSE 0
             /\ subscriptionListener =>
                  /\ CountKind(out', "onSubscriptionRemoved") = Cardinality(held)
                  /\ \A n \in Names :
                       Count(out', <<"onSubscriptionRemoved", n, c>>)
                         = IF n \in held THEN 1 ELSE 0
             /\ \A n \in held :
                  getLocalSubscribers(Cur, n) = {c} => n \notin DOMAIN subscriptions'
    ]_vars

\* C5's case: the hook has run for a connection that held two names, one of
\* them shared with another connection, with a listener installed.
C5_Witness ==
  /\ lastOp.op = "close"
  /\ lastOp.hookRan
  /\ subscriptionListener
  /\ CountKind(out, "onSubscriptionRemoved") = 2
  /\ \E n \in Names :
       /\ Count(out, <<"onSubscriptionRemoved", n, lastOp.socket>>) = 1
       /\ hasLocalSubscribers(Cur, n)
  /\ \E n \in Names :
       /\ Count(out, <<"onSubscriptionRemoved", n, lastOp.socket>>) = 1
       /\ ~hasLocalSubscribers(Cur, n)

\* C6: after onSocketClose(c) has run, and after an unsubscribe that removed
\* c's last subscription, sockets has no entry for c.
C6_ConnectionRecordDestroyed ==
  \A c \in Conns :
    (\/ lastOp.op = "close" /\ lastOp.socket = c /\ lastOp.hookRan
     \/ /\ lastOp.op = "unsubscribe"
        /\ lastOp.socket = c
        /\ CountKind(out, "clusterSubscriptions.remove") = 1
        /\ Held(Cur, c) = {})
    => c \notin DOMAIN sockets

\* clusterSubscriptions.add(n) and remove(n) calls in a call log
Adds(log, n) == Count(log, <<"clusterSubscriptions.add", n>>)
Removes(log, n) == Count(log, <<"clusterSubscriptions.remove", n>>)

\* C7: for each name, add calls minus remove calls equals the number of local
\* subscribers in every state, and no remove is ever called without an
\* earlier unmatched add: the balance never drops below zero at any point of
\* any operation.
C7_BridgeAccounting ==
  /\ [](\A n \in Names : clusterNet[n] = Cardinality(getLocalSubscribers(Cur, n)))
  /\ [][\A n \in Names : \A k \in 0..Len(out') :
          clusterNet[n] + Adds(SubSeq(out', 1, k), n) - Removes(SubSeq(out', 1, k), n) >= 0
       ]_vars

\* C7's case: a name with two local subscribers, the second just added.
C7_Witness ==
  /\ lastOp.op \in {"subscribe", "subscribeBulk"}
  /\ \E n \in Names :
       /\ Adds(out, n) = 1
       /\ clusterNet[n] = 2
       /\ Cardinality(getLocalSubscribers(Cur, n)) = 2

\* C8 as claimed: a name with local subscribers has exactly one outstanding
\* add, however many connections subscribe to it.
C8_SingleOutstandingAdd ==
  \A n \in Names :
    clusterNet[n] = IF hasLocalSubscribers(Cur, n) THEN 1 ELSE 0

\* C8 as amended: the registry issues one add(N) for every connection that
\* becomes a subscriber of N and one remove(N) for every connection that
\* stops being one, so a name's outstanding adds are one per local
\* subscriber, and none once its local subscriber count is back to zero.
C8_OneAddPerSubscriber ==
  /\ [](\A n \in Names : ~hasLocalSubscribers(Cur, n) => clusterNet[n] = 0)
  /\ [](\A n \in Names : hasLocalSubscribers(Cur, n) => clusterNet[n] >= 1)
  /\ [][\A n \in Names :
          LET before == getLocalSubscribers(Cur, n)
              after == IF n \in DOMAIN subscriptions'
                       THEN Range(heap'[subscriptions'[n]].sockets) ELSE {}
          IN /\ Adds(out', n) = Cardinality(after \ before)
             /\ Removes(out', n) = Cardinality(before \ after)
       ]_vars

\* C8's case: one of two subscribers of a name has just left.
C8_Witness ==
  /\ lastOp.op \in {"unsubscribe", "unsubscribeBulk", "close"}
  /\ \E n \in Names :
       /\ Removes(out, n) = 1
       /\ clusterNet[n] = 1
       /\ hasLocalSubscribers(Cur, n)

\* C9: from a state in which c holds no subscriptions, subscribe(N, c)
\* followed by unsubscribe(N, c) leaves both maps as they were and the close
\* callback not registered on c.
C9_RoundTrip ==
  \A c \in Conns \ closed, n \in Names, a \in MsgActions, silent \in BOOLEAN :
    Held(Cur, c) = {} =>
      LET m == Message(a, n)
          r == Collect(unsubscribe(subscribe(Cur, n, m, c, silent), n, m, c, silent))
      IN /\ NameIndex(r) = NameIndex(Cur)
         /\ ConnectionIndex(r) = ConnectionIndex(Cur)
         /\ c \notin r.closeCallbacks

\* C10: subscribe(N, msg, c, silent) when c is already subscribed to N, for
\* either value of silent, changes neither map nor the close callbacks, and
\* makes exactly one call: sendMessage to c of the MULTIPLE_SUBSCRIPTIONS
\* reply with originalAction = msg.action and name N (so no cluster add, no
\* listener call and no ACK).
C10_DuplicateSubscribe ==
  [][\A c \in Conns, n \in Names :
       (/\ lastOp'.op = "subscribe"
        /\ lastOp'.socket = c
        /\ lastOp'.name = n
        /\ c \in getLocalSubscribers(Cur, n))
       => /\ subscriptions' = subscriptions
          /\ heap' = heap
          /\ sockets' = sockets
          /\ closeCallbacks' = closeCallbacks
          /\ clusterNet' = clusterNet
          /\ out' = << <<"sendMessage", c,
                         [topic |-> TOPIC, action |-> MULTIPLE_SUBSCRIPTIONS,
                          originalAction |-> lastOp'.message.action, name |-> n]>> >>
    ]_vars

\* C10's case: a silent subscribe was answered with MULTIPLE_SUBSCRIPTIONS.
C10_Witness ==
  /\ lastOp.op = "subscribe"
  /\ lastOp.silent
  /\ lastOp.socket \in getLocalSubscribers(Cur, lastOp.name)
  /\ Len(out) = 1
  /\ out[1][1] = "sendMessage"
  /\ out[1][3].action = MULTIPLE_SUBSCRIPTIONS

\* The protocol replies of the registry.
Reply(action, message, name, c) ==
  <<"sendMessage", c,
    [topic |-> TOPIC, action |-> action, originalAction |-> message.action, name |-> name]>>
Occurrences(names, n) == Cardinality({i \in DOMAIN names : names[i] = n})

\* C11: unsubscribe(N, msg, c, silent = false) when c is not subscribed to N
\* (N absent, or present with other subscribers only) changes neither map nor
\* the close callbacks and makes exactly one call: sendMessage to c of the
\* NOT_SUBSCRIBED reply with originalAction = msg.action and name N (so no
\* ACK, no cluster remove and no listener call).
C11_UnknownUnsubscribe ==
  [][\A c \in Conns, n \in Names :
       (/\ lastOp'.op = "unsubscribe"
        /\ lastOp'.socket = c
        /\ lastOp'.name = n
        /\ ~lastOp'.silent
        /\ c \notin getLocalSubscribers(Cur, n))
       => /\ subscriptions' = subscriptions
          /\ heap' = heap
          /\ sockets' = sockets
          /\ closeCallbacks' = closeCallbacks
          /\ clusterNet' = clusterNet
          /\ out' = << Reply(NOT_SUBSCRIBED, lastOp'.message, n, c) >>
    ]_vars

\* C11's case: a non-silent unsubscribe of a name that only another
\* connection holds was answered with NOT_SUBSCRIBED.
C11_Witness ==
  /\ lastOp.op = "unsubscribe"
  /\ ~lastOp.silent
  /\ out = << Reply(NOT_SUBSCRIBED, lastOp.message, lastOp.name, lastOp.socket) >>
  /\ getLocalSubscribers(Cur, lastOp.name) # {}
  /\ subscriptionListener

\* C12 as claimed: in subscribeBulk every name the connection is already
\* subscribed to gets its MULTIPLE_SUBSCRIPTIONS reply, and in
\* unsubscribeBulk every name the connection is not subscribed to gets its
\* NOT_SUBSCRIBED reply, whatever the bulk-level silent is.
C12_BulkPerNameReplies ==
  [][\A c \in Conns :
       /\ (lastOp'.op = "subscribeBulk" /\ lastOp'.socket = c)
          => \A n \in Range(lastOp'.message.names) :
               c \in getLocalSubscribers(Cur, n)
               => Count(out', Reply(MULTIPLE_SUBSCRIPTIONS, lastOp'.message, n, c)) >= 1
       /\ (lastOp'.op = "unsubscribeBulk" /\ lastOp'.socket = c)
          => \A n \in Range(lastOp'.message.names) :
               c \notin getLocalSubscribers(Cur, n)
               => Count(out', Reply(NOT_SUBSCRIBED, lastOp'.message, n, c)) >= 1
    ]_vars

\* C12 as amended: in subscribeBulk every entry of message.names whose name
\* the connection is subscribed to when the entry is reached (before the
\* call, or through an earlier entry) gets its own MULTIPLE_SUBSCRIPTIONS
\* reply, whatever the bulk-level silent is; unsubscribeBulk sends no
\* NOT_SUBSCRIBED reply at all, whatever the bulk-level silent is.
C12_BulkReplies ==
  [][\A c \in Conns :
       /\ (lastOp'.op = "subscribeBulk" /\ lastOp'.socket = c)
          => /\ \A n \in Names :
                  Count(out', Reply(MULTIPLE_SUBSCRIPTIONS, lastOp'.message, n, c))
                    = LET k == Occurrences(lastOp'.message.names, n)
                      IN IF k > 0 /\ c \notin getLocalSubscribers(Cur, n) THEN k - 1 ELSE k
             /\ CountKind(out', "sendMessage")
                  = Cardinality({i \in DOMAIN out' :
                       /\ out'[i][1] = "sendMessage"
                       /\ out'[i][2] = c
                       /\ out'[i][3].action = MULTIPLE_SUBSCRIPTIONS})
       /\ (lastOp'.op = "unsubscribeBulk" /\ lastOp'.socket = c)
          => CountKind(out', "sendMessage") = 0
    ]_vars

\* C12's case: an unsubscribeBulk of two names of which the connection held
\* only one.
C12_Witness ==
  /\ lastOp.op = "unsubscribeBulk"
  /\ Cardinality(Range(lastOp.message.names)) = 2
  /\ CountKind(out, "clusterSubscriptions.remove") = 1

\* C13: subscribeBulk and unsubscribeBulk with silent = false send exactly
\* one ACK, to the calling connection, carrying the bulk message's topic,
\* action and correlationId, as their last call (so after every per-name
\* operation and with no per-name ACK), also when names are duplicates or
\* not subscribed; with silent = true they send no ACK.
C13_BulkAck ==
  [][\A c \in Conns :
       (lastOp'.op \in {"subscribeBulk", "unsubscribeBulk"} /\ lastOp'.socket = c)
       => IF lastOp'.silent
          THEN CountKind(out', "sendAckMessage") = 0
          ELSE /\ CountKind(out', "sendAckMessage") = 1
               /\ Len(out') >= 1
               /\ out'[Len(out')]
                    = <<"sendAckMessage", c,
                        [topic |-> lastOp'.message.topic,
                         action |-> lastOp'.message.action,
                         correlationId |-> lastOp'.message.correlationId]>>
    ]_vars

\* C13's case: a non-silent subscribeBulk of two entries, one of them a
\* repeat, acknowledged once.
C13_Witness ==
  /\ lastOp.op = "subscribeBulk"
  /\ ~lastOp.silent
  /\ Len(lastOp.message.names) = 2
  /\ CountKind(out, "sendMessage") = 1
  /\ CountKind(out, "clusterSubscriptions.add") = 1
  /\ CountKind(out, "sendAckMessage") = 1

\* The names whose socket set holds connection c.
SubscribedNames(r, c) == {n \in Names : c \in getLocalSubscribers(r, n)}

\* C17: an unsubscribe(N, c) calls removeOnClose on c if and only if it
\* cleared c's last held subscription (c held exactly N before it), and
\* onClose is called on c only when c acquires its first subscription, so
\* never while the hook is already registered.
C17_HookUnregistrationTrigger ==
  [][\A c \in Conns :
       /\ (lastOp'.op = "unsubscribe" /\ lastOp'.socket = c)
          => ((Count(out', <<"removeOnClose", c>>) >= 1)
                <=> SubscribedNames(Cur, c) = {lastOp'.name})
       /\ (Count(out', <<"onClose", c>>) >= 1)
          => /\ SubscribedNames(Cur, c) = {}
             /\ c \notin closeCallbacks
    ]_vars

\* C18: while the close hook of a closing connection c runs, removeOnClose
\* is never called on c.
C18_NoUnregistrationInCloseHook ==
  [][\A c \in Conns :
       (lastOp'.op = "close" /\ lastOp'.socket = c /\ lastOp'.hookRan)
       => Count(out', <<"removeOnClose", c>>) = 0
    ]_vars

\* C19: with a listener installed, an operation calls onSubscriptionMade(N, c)
\* exactly once if it added c to N's subscribers and not at all otherwise
\* (duplicate subscribe), and calls onSubscriptionRemoved(N, c) exactly once
\* if it removed c from N's subscribers (unsubscribe, bulk unsubscribe,
\* close) and not at all otherwise (unsubscribe of a name c does not hold).
C19_LifecycleNotifications ==
  [][subscriptionListener =>
       \A c \in Conns, n \in Names :
         LET before == c \in getLocalSubscribers(Cur, n)
             after == c \in getLocalSubscribers(Cur, n)'
         IN /\ Count(out', <<"onSubscriptionMade", n, c>>)
                 = IF ~before /\ after THEN 1 ELSE 0
            /\ Count(out', <<"onSubscriptionRemoved", n, c>>)
                 = IF before /\ ~after THEN 1 ELSE 0
    ]_vars

\* C19's case: with a listener installed, a bulk unsubscribe of two entries
\* removed the connection from one name that other connections still hold.
C19_Witness ==
  /\ subscriptionListener
  /\ lastOp.op = "unsubscribeBulk"
  /\ Len(lastOp.message.names) = 2
  /\ CountKind(out, "onSubscriptionRemoved") = 1
  /\ \E n \in Range(lastOp.message.names) :
       /\ Count(out, <<"onSubscriptionRemoved", n, lastOp.socket>>) = 1
       /\ getLocalSubscribers(Cur, n) # {}

\* The writes of a built message to connection c in a call log.
WritesTo(log, c) ==
  Cardinality({i \in DOMAIN log : log[i][1] = "sendBuiltMessage" /\ log[i][2] = c})

\* C14: sendToSubscribers(name, M, noDelay, sender, suppressRemote) calls
\* sendBuiltMessage (the built M, allowBatch = true) exactly once on every
\* local subscriber of name other than sender, never on sender nor on a
\* connection that is not subscribed to name, and, when the name has
\* subscribers, reports onBroadcast(M, n) exactly once with n the number of
\* local subscribers, sender included; the registry itself is unchanged.
C14_FanoutExcludesSender ==
  [][lastOp'.op = "sendToSubscribers" =>
       LET name == lastOp'.name
           M == lastOp'.message
           sender == lastOp'.socket
           subscribers == getLocalSubscribers(Cur, name)
       IN /\ \A c \in Conns :
               /\ WritesTo(out', c) = IF c \in subscribers /\ c # sender THEN 1 ELSE 0
               /\ Count(out', <<"sendBuiltMessage", c, [bytes |-> M], TRUE>>) = WritesTo(out', c)
          /\ subscribers # {}
             => /\ CountKind(out', "monitoring.onBroadcast") = 1
                /\ Count(out', <<"monitoring.onBroadcast", M, Cardinality(subscribers)>>) = 1
          /\ CountKind(out', "TypeError") = 0
          /\ UNCHANGED <<subscriptions, heap, sockets, closeCallbacks, clusterNet>>
    ]_vars

\* C14's case: a subscriber of a name with two subscribers sent a message;
\* the other one got it and monitoring was told of two.
C14_Witness ==
  /\ lastOp.op = "sendToSubscribers"
  /\ lastOp.socket \in getLocalSubscribers(Cur, lastOp.name)
  /\ Cardinality(getLocalSubscribers(Cur, lastOp.name)) = 2
  /\ CountKind(out, "sendBuiltMessage") = 1
  /\ WritesTo(out, lastOp.socket) = 0
  /\ Count(out, <<"monitoring.onBroadcast", lastOp.message, 2>>) = 1

\* C15: sendToSubscribers forwards the message to the cluster transport
\* exactly once if senderSocket is not null and suppressRemote is false, and
\* not at all otherwise, whether or not the name has local subscribers; when
\* the name has none there is no monitoring report and no local write.
C15_ClusterForwarding ==
  [][lastOp'.op = "sendToSubscribers" =>
       LET forwards == lastOp'.socket # NullSocket /\ ~lastOp'.suppressRemote
       IN /\ CountKind(out', "clusterNode.send") = IF forwards THEN 1 ELSE 0
          /\ Count(out', <<"clusterNode.send", lastOp'.message>>) = IF forwards THEN 1 ELSE 0
          /\ getLocalSubscribers(Cur, lastOp'.name) = {}
             => /\ CountKind(out', "monitoring.onBroadcast") = 0
                /\ CountKind(out', "sendBuiltMessage") = 0
    ]_vars

\* C15's case: a local connection sent to a name nobody subscribes to, and
\* the only call made was the forward to the cluster.
C15_Witness ==
  /\ lastOp.op = "sendToSubscribers"
  /\ lastOp.socket # NullSocket
  /\ ~lastOp.suppressRemote
  /\ getLocalSubscribers(Cur, lastOp.name) = {}
  /\ out = << <<"clusterNode.send", lastOp.message>> >>

\* The place of a call in a call log, 0 when it is not there.
Pos(log, e) ==
  IF \E i \in DOMAIN log : log[i] = e
  THEN CHOOSE i \in DOMAIN log : log[i] = e /\ \A j \in 1..(i - 1) : log[j] # e
  ELSE 0

\* C20: a successful subscribe updates both maps, then calls the bridge's
\* add(name), then onSubscriptionMade, then sends the ACK; a successful
\* unsubscribe takes the connection out of the name's socket set (deleting
\* the name if the set is empty) before it calls onSubscriptionRemoved, then
\* the bridge's remove(name), then takes the subscription out of the
\* connection's set, then sends the ACK.
C20_OrderOfSideEffects ==
  [][lastOp'.op \in {"subscribe", "unsubscribe"} =>
       \A c \in {lastOp'.socket}, n \in {lastOp'.name},
          joined \in {lastOp'.socket \in getLocalSubscribers(Cur, lastOp'.name)},
          r \in {IF lastOp'.op = "subscribe"
                 THEN subscribe(Cur, lastOp'.name, lastOp'.message, lastOp'.socket, lastOp'.silent)
                 ELSE unsubscribe(Cur, lastOp'.name, lastOp'.message, lastOp'.socket, lastOp'.silent)} :
         \A add \in {Pos(r.out, <<"clusterSubscriptions.add", n>>)},
            made \in {Pos(r.out, <<"onSubscriptionMade", n, c>>)},
            removed \in {Pos(r.out, <<"onSubscriptionRemoved", n, c>>)},
            remove \in {Pos(r.out, <<"clusterSubscriptions.remove", n>>)},
            ack \in {Pos(r.out, <<"sendAckMessage", c, lastOp'.message>>)} :
           /\ r.out = out'
           /\ Len(r.seen) = Len(r.out)
           /\ (lastOp'.op = "subscribe" /\ ~joined)
              => /\ add > 0
                 /\ c \in getLocalSubscribers(r.seen[add], n)
                 /\ n \in HeldNames(r.seen[add], c)
                 /\ subscriptionListener => made > add
                 /\ ~lastOp'.silent => (ack = Len(r.out) /\ ack > add /\ ack > made)
           /\ (lastOp'.op = "unsubscribe" /\ joined)
              => /\ remove > 0
                 /\ subscriptionListener => (removed > 0 /\ removed < remove)
                 /\ \A i \in {removed, remove} \ {0} :
                      /\ c \notin getLocalSubscribers(r.seen[i], n)
                      /\ getLocalSubscribers(Cur, n) = {c}
                         => n \notin DOMAIN r.seen[i].subscriptions
                      /\ n \in HeldNames(r.seen[i], c)
                 /\ n \notin HeldNames(r, c)
                 /\ ~lastOp'.silent
                    => /\ ack = Len(r.out)
                       /\ ack > remove
                       /\ n \notin HeldNames(r.seen[ack], c)
    ]_vars

\* C20's case: with a listener installed, a non-silent unsubscribe of a name
\* that others still hold made its three calls in this order.
C20_Witness ==
  /\ subscriptionListener
  /\ lastOp.op = "unsubscribe"
  /\ ~lastOp.silent
  /\ out = << <<"onSubscriptionRemoved", lastOp.name, lastOp.socket>>,
              <<"clusterSubscriptions.remove", lastOp.name>>,
              <<"sendAckMessage", lastOp.socket, lastOp.message>> >>

SentTo(log, c) ==
  Cardinality({i \in DOMAIN log :
                 /\ log[i][1] \in {"sendMessage", "sendAckMessage", "sendBuiltMessage"}
                 /\ log[i][2] = c})

\* C22: a subscribe or unsubscribe with silent = false sends exactly one
\* message to the calling connection and none to any other: the ACK echoing
\* the request if the membership of the connection in the name changed, the
\* MULTIPLE_SUBSCRIPTIONS reply (subscribe) or NOT_SUBSCRIBED reply
\* (unsubscribe) if it did not.
C22_OneResponsePerRequest ==
  [][(lastOp'.op \in {"subscribe", "unsubscribe"} /\ ~lastOp'.silent) =>
       \A c \in {lastOp'.socket}, n \in {lastOp'.name} :
       \A before \in {c \in getLocalSubscribers(Cur, n)},
          after \in {c \in getLocalSubscribers(Cur, n)'} :
         /\ SentTo(out', c) = 1
         /\ \A d \in Conns \ {c} : SentTo(out', d) = 0
         /\ IF before # after
            THEN Count(out', <<"sendAckMessage", c, lastOp'.message>>) = 1
            ELSE Count(out', Reply(IF lastOp'.op = "subscribe"
                                   THEN MULTIPLE_SUBSCRIPTIONS
                                   ELSE NOT_SUBSCRIBED,
                                   lastOp'.message, n, c)) = 1
         /\ (lastOp'.op = "subscribe") => after
         /\ (lastOp'.op = "unsubscribe") => ~after
    ]_vars

\* C22's case: a non-silent subscribe made the connection the second
\* subscriber of a name and was answered with the ACK alone.
C22_Witness ==
  /\ lastOp.op = "subscribe"
  /\ ~lastOp.silent
  /\ Cardinality(getLocalSubscribers(Cur, lastOp.name)) = 2
  /\ SentTo(out, lastOp.socket) = 1
  /\ out[Len(out)] = <<"sendAckMessage", lastOp.socket, lastOp.message>>

\* C21: when onSocketClose is called for a connection that has no entry in
\* the sockets map, the only call made is one logger.error; there is no
\* bridge call, no listener call and nothing is sent; both maps, the close
\* callbacks and the listener are unchanged, and the registry stays usable:
\* a subscribe of that connection that follows adds it to the name.
C21_IllegalCloseCallback ==
  /\ [][\A c \in Conns :
          (lastOp'.op = "onSocketClose" /\ lastOp'.socket = c /\ c \notin DOMAIN sockets)
          => /\ out' = << <<"logger.error", NOT_SUBSCRIBED>> >>
             /\ UNCHANGED <<subscriptions, heap, sockets, closeCallbacks,
                            subscriptionListener, clusterNet>>
       ]_vars
  /\ [](\A c \in Conns :
          (lastOp.op = "onSocketClose" /\ lastOp.socket = c /\ c \notin DOMAIN sockets)
          => \A n \in Names :
               c \in getLocalSubscribers(
                       subscribe(Cur, n, Message("SUBSCRIBE", n), c, FALSE), n))

\* C21's case: with a listener installed and another connection subscribed,
\* the close callback was called for a connection that has no entry.
C21_Witness ==
  /\ lastOp.op = "onSocketClose"
  /\ lastOp.socket \notin DOMAIN sockets
  /\ out = << <<"logger.error", NOT_SUBSCRIBED>> >>
  /\ subscriptionListener
  /\ DOMAIN subscriptions # {}
====
